---- MODULE Spec2Model ----
(***************************************************************************)
(* Order-intake backend (Express handlers over a PostgreSQL table or an    *)
(* in-memory list).  The model follows the fallback revision of the server *)
(* file: the module-level state, startServer, the route table, the seven   *)
(* /api/orders handlers with both of their storage branches, and the       *)
(* global error handler.                                                   *)
(***************************************************************************)
EXTENDS Integers, Sequences, FiniteSets, TLC

\* Bounds of the model.
MaxOrders == 2      \* ids a store hands out in one run
MaxTime == 1        \* clock ticks (milliseconds) after the start
MaxRequests == 3    \* requests served in one run

----------------------------------------------------------------------------
\* JavaScript values of request bodies and record fields.
Undef == [t |-> "undefined"]
Null == [t |-> "null"]
NaN == [t |-> "NaN"]
Str(s) == [t |-> "string", s |-> s]
Num(n) == [t |-> "number", n |-> n]
\* The number n/d, for a d > 1 that does not divide n.
Frac(n, d) == [t |-> "number", n |-> n, d |-> d]
IsWhole(v) == "d" \notin DOMAIN v

\* Mutant: a presence check (x !== undefined && x !== null && x !== '')
\* in place of the truthiness test, so that the number 0 passes.
Truthy_ZeroPasses(v) ==
    CASE v.t = "undefined" -> FALSE
      [] v.t = "null" -> FALSE
      [] v.t = "NaN" -> FALSE
      [] v.t = "string" -> v.s # ""
      [] v.t = "number" -> TRUE

\* ToBoolean: what `!x`, `x || y` and `if (x)` test.
Truthy(v) ==
    CASE v.t = "undefined" -> FALSE
      [] v.t = "null" -> FALSE
      [] v.t = "NaN" -> FALSE
      [] v.t = "string" -> v.s # ""
      [] v.t = "number" -> v.n # 0

\* `a || b`
OrElse(a, b) == IF Truthy(a) THEN a ELSE b

Digits == <<"0", "1", "2", "3", "4", "5", "6", "7", "8", "9">>
IsDigit(c) == \E i \in 1..Len(Digits) : Digits[i] = c
DigitVal(c) == (CHOOSE i \in 1..Len(Digits) : Digits[i] = c) - 1

\* Number(v) for the values a body carries: a number is itself, a string of
\* one decimal digit is that digit, the empty string is 0, any other string
\* is NaN, undefined is NaN and null is 0.
ToNumber(v) ==
    CASE v.t = "number" -> v
      [] v.t = "NaN" -> v
      [] v.t = "undefined" -> NaN
      [] v.t = "null" -> Num(0)
      [] v.t = "string" ->
            IF v.s = "" THEN Num(0)
            ELSE IF IsDigit(v.s) THEN Num(DigitVal(v.s))
            ELSE NaN

\* A path segment is a sequence of characters.  parseInt(seg, 10) reads the
\* longest prefix of decimal digits; with no digit at the front it is NaN.
RECURSIVE DigitPrefix(_, _)
DigitPrefix(seg, acc) ==
    IF seg # <<>> /\ IsDigit(Head(seg))
    THEN DigitPrefix(Tail(seg), acc * 10 + DigitVal(Head(seg)))
    ELSE acc

ParseInt(seg) ==
    IF seg # <<>> /\ IsDigit(Head(seg))
    THEN [nan |-> FALSE, n |-> DigitPrefix(seg, 0)]
    ELSE [nan |-> TRUE, n |-> 0]

\* `o.id === id` for a stored integer id and a parseInt result.
IdEq(oid, id) == ~id.nan /\ oid = id.n

----------------------------------------------------------------------------
\* Constants of the handlers.
PRODUCT_NAME == "PRODUCT"                 \* the fixed product name
PENDING == "PENDING"                      \* 'preparing shipment', the default
COMPLETED == "COMPLETED"                  \* 'delivered'
\* Mutant: the cancel-request handler writes the default status.
CANCEL_REQUESTED_Default == "PENDING"
CANCEL_REQUESTED == "CANCEL_REQUESTED"    \* 'cancellation requested'
CANCELLED == "CANCELLED"                  \* 'cancellation done'

MSG_BAD_REQUEST == "bad request"
MSG_SERVER_ERROR == "server error"
MSG_REQUIRED == "required fields missing"
MSG_SAVE_FAILED == "saving the order failed"
MSG_LIST_FAILED == "listing the orders failed"
MSG_NOT_FOUND == "no order with this id"
MSG_COMPLETE_FAILED == "updating the order status failed"
MSG_CANCEL_REQUEST_FAILED == "handling the cancel request failed"
MSG_CANCEL_FAILED == "cancelling the order failed"
MSG_DELETED == "order deleted"
MSG_DELETE_FAILED == "deleting the order failed"
MSG_ALL_DELETED == "all orders reset"
MSG_ALL_DELETED_MEMORY == "all orders reset (memory)"
MSG_TRUNCATE_FAILED == "resetting the database failed"

Resp(code, body) == [code |-> code, body |-> body]
Message(m) == [message |-> m]

\* Errors pool.query can raise: none, a driver failure, or the server
\* refusing a parameter that is no integer.
NoError == "none"
DriverErrors == {"connection terminated", "timeout exceeded"}
ERR_INTEGER_SYNTAX == "invalid input syntax for type integer"

----------------------------------------------------------------------------
VARIABLES
    databaseUrl,     \* whether DATABASE_URL is set
    DEBUG,           \* process.env.DEBUG === 'true'
    listening,       \* app.listen has been called
    useMemoryStore,
    memoryOrders,    \* sequence of order records, in insertion order
    memoryNextId,
    orders,          \* the rows of table orders
    orders_id_seq,   \* last value of the SERIAL sequence of orders.id
    now,             \* the clock, in milliseconds
    req,             \* the request served last
    res,             \* the response to it
    resPg,           \* side by side: the response of the relational process
    issued,          \* ids of the orders created so far, in creation order
    served,          \* number of requests served so far
    startup          \* startServer: its position and the error it caught

vars == <<databaseUrl, DEBUG, listening, useMemoryStore, memoryOrders,
          memoryNextId, orders, orders_id_seq, now, req, res, resPg, issued,
          served, startup>>

\* startServer at position pc, dbErr the error of the inner catch.
Startup(pc, dbErr) == [pc |-> pc, dbErr |-> dbErr]

NoRequest == [method |-> "none"]
NoResponse == [code |-> 0]

Init ==
    /\ databaseUrl \in BOOLEAN
    /\ DEBUG \in BOOLEAN
    /\ listening = FALSE
    /\ useMemoryStore = FALSE
    /\ memoryOrders = <<>>
    /\ memoryNextId = 1
    /\ orders = {}
    /\ orders_id_seq = 0
    /\ now = 0
    /\ req = NoRequest
    /\ res = NoResponse
    /\ resPg = NoResponse
    /\ issued = <<>>
    /\ served = 0
    /\ startup = Startup("start", NoError)

----------------------------------------------------------------------------
\* The state the handlers read and write, as one record.
Store ==
    [useMemoryStore |-> useMemoryStore, DEBUG |-> DEBUG,
     memoryOrders |-> memoryOrders, memoryNextId |-> memoryNextId,
     orders |-> orders, orders_id_seq |-> orders_id_seq, now |-> now]

\* What a handler leaves behind: the store and the response it sent.
Outcome(s, r) == [s |-> s, res |-> r]

\* Mutant: the callback o => o.id = id, an assignment that is truthy for
\* every element, so the first element is found whatever its id.
FindIndex_First(mo, id) == IF mo = <<>> \/ id.nan THEN 0 ELSE 1

\* Index of the first element of a sequence with a given id, 0 if none
\* (Array.prototype.find and findIndex, with -1 written as 0).
FindIndex(mo, id) ==
    LET hits == {i \in 1..Len(mo) : IdEq(mo[i].id, id)}
    IN  IF hits = {} THEN 0 ELSE CHOOSE i \in hits : \A j \in hits : i <= j

\* Array.prototype.splice(index, 1)
\* Mutant: splice(index), which removes every element from index on.
Splice_NoCount(mo, index) == SubSeq(mo, 1, index - 1)
Splice(mo, index) ==
    SubSeq(mo, 1, index - 1) \o SubSeq(mo, index + 1, Len(mo))

\* Array.prototype.sort with the comparator (a, b) => date(b) - date(a):
\* a stable sort, so records with equal order_date keep their relative
\* order.  order_date is the ISO string of a millisecond time and the
\* comparator reads it back with new Date, which is exact, so the
\* comparison is on the millisecond time.
RECURSIVE InsertByDateDesc(_, _)
InsertByDateDesc(sorted, x) ==
    IF sorted = <<>> THEN <<x>>
    ELSE IF x.order_date - Head(sorted).order_date > 0
         THEN <<x>> \o sorted
         ELSE <<Head(sorted)>> \o InsertByDateDesc(Tail(sorted), x)

RECURSIVE SortByDateDesc(_)
SortByDateDesc(mo) ==
    IF mo = <<>> THEN <<>>
    ELSE InsertByDateDesc(SortByDateDesc(SubSeq(mo, 1, Len(mo) - 1)), mo[Len(mo)])

\* The results SELECT * FROM orders ORDER BY order_date DESC may give: every
\* arrangement of the rows with order_date never increasing (the order of
\* rows with equal order_date is not defined by the statement).
OrderByDateDesc(rows) ==
    {q \in [1..Cardinality(rows) -> rows] :
        /\ \A i, j \in DOMAIN q : i # j => q[i] # q[j]
        /\ \A i, j \in DOMAIN q : i < j => q[i].order_date >= q[j].order_date}

\* A parameter bound to the INTEGER column quantity: an integer, or a string
\* that spells one; anything else is refused by the server.
IsPgInteger(v) ==
    \/ v.t = "number" /\ IsWhole(v)
    \/ v.t = "string" /\ IsDigit(v.s)

PgInteger(v) == IF v.t = "number" THEN v ELSE Num(DigitVal(v.s))

\* The message of a 500 response of the three PATCH handlers.
\* Mutant: the error's message is sent whatever the mode.
DebugMessage_AlwaysEcho(debug, err, fixed) == err
DebugMessage(debug, err, fixed) == IF debug THEN err ELSE fixed

----------------------------------------------------------------------------
\* Mutant: the in-memory branch reads memoryNextId without incrementing it.
PostOrders_NoIncrement(s, body, err) ==
    IF \/ ~Truthy(body.quantity) \/ ~Truthy(body.name) \/ ~Truthy(body.phone)
       \/ ~Truthy(body.address) \/ ~Truthy(body.totalAmount)
    THEN Outcome(s, Resp(400, Message(MSG_REQUIRED)))
    ELSE IF ~s.useMemoryStore
    THEN IF err # NoError \/ ~IsPgInteger(body.quantity)
         THEN Outcome(s, Resp(500, Message(MSG_SAVE_FAILED)))
         ELSE LET row == [id |-> s.orders_id_seq + 1,
                          product_name |-> PRODUCT_NAME,
                          quantity |-> PgInteger(body.quantity),
                          buyer_name |-> body.name,
                          phone |-> body.phone,
                          address |-> body.address,
                          total_amount |-> body.totalAmount,
                          status |-> PENDING,
                          tracking_number |-> Null,
                          tracking_carrier |-> Null,
                          cancellation_reason |-> Null,
                          order_date |-> s.now]
              IN  Outcome([s EXCEPT !.orders = @ \cup {row},
                                    !.orders_id_seq = @ + 1],
                          Resp(201, row))
    ELSE LET newOrder == [id |-> s.memoryNextId,
                          product_name |-> PRODUCT_NAME,
                          quantity |-> ToNumber(body.quantity),
                          buyer_name |-> body.name,
                          phone |-> body.phone,
                          address |-> body.address,
                          total_amount |-> body.totalAmount,
                          status |-> PENDING,
                          tracking_number |-> Null,
                          tracking_carrier |-> Null,
                          cancellation_reason |-> Null,
                          order_date |-> s.now]
         IN  Outcome([s EXCEPT !.memoryOrders = Append(@, newOrder)],
                     Resp(201, newOrder))

\* app.post('/api/orders')
PostOrders(s, body, err) ==
    IF \/ ~Truthy(body.quantity) \/ ~Truthy(body.name) \/ ~Truthy(body.phone)
       \/ ~Truthy(body.address) \/ ~Truthy(body.totalAmount)
    THEN Outcome(s, Resp(400, Message(MSG_REQUIRED)))
    ELSE IF ~s.useMemoryStore
    THEN IF err # NoError \/ ~IsPgInteger(body.quantity)
         THEN Outcome(s, Resp(500, Message(MSG_SAVE_FAILED)))
         ELSE LET row == [id |-> s.orders_id_seq + 1,
                          product_name |-> PRODUCT_NAME,
                          quantity |-> PgInteger(body.quantity),
                          buyer_name |-> body.name,
                          phone |-> body.phone,
                          address |-> body.address,
                          total_amount |-> body.totalAmount,
                          status |-> PENDING,
                          tracking_number |-> Null,
                          tracking_carrier |-> Null,
                          cancellation_reason |-> Null,
                          order_date |-> s.now]
              IN  Outcome([s EXCEPT !.orders = @ \cup {row},
                                    !.orders_id_seq = @ + 1],
                          Resp(201, row))
    ELSE LET newOrder == [id |-> s.memoryNextId,
                          product_name |-> PRODUCT_NAME,
                          quantity |-> ToNumber(body.quantity),
                          buyer_name |-> body.name,
                          phone |-> body.phone,
                          address |-> body.address,
                          total_amount |-> body.totalAmount,
                          status |-> PENDING,
                          tracking_number |-> Null,
                          tracking_carrier |-> Null,
                          cancellation_reason |-> Null,
                          order_date |-> s.now]
         IN  Outcome([s EXCEPT !.memoryNextId = @ + 1,
                               !.memoryOrders = Append(@, newOrder)],
                     Resp(201, newOrder))

\* app.get('/api/orders'); rows is the result the SELECT gives.
\* Mutant: memoryOrders.sort(...) without slice(), which sorts in place.
GetOrders_SortInPlace(s, err, rows) ==
    IF ~s.useMemoryStore
    THEN IF err # NoError
         THEN Outcome(s, Resp(500, Message(MSG_LIST_FAILED)))
         ELSE Outcome(s, Resp(200, rows))
    ELSE Outcome([s EXCEPT !.memoryOrders = SortByDateDesc(@)],
                 Resp(200, SortByDateDesc(s.memoryOrders)))
GetOrders(s, err, rows) ==
    IF ~s.useMemoryStore
    THEN IF err # NoError
         THEN Outcome(s, Resp(500, Message(MSG_LIST_FAILED)))
         ELSE Outcome(s, Resp(200, rows))
    ELSE Outcome(s, Resp(200, SortByDateDesc(s.memoryOrders)))

\* app.patch('/api/orders/:id/complete')
PatchComplete(s, seg, body, err) ==
    LET id == ParseInt(seg)
        trackingNumber == body.trackingNumber
        carrier == body.carrier
    IN  IF ~s.useMemoryStore
        THEN IF err # NoError \/ id.nan
             THEN Outcome(s, Resp(500, Message(DebugMessage(s.DEBUG,
                        IF err # NoError THEN err ELSE ERR_INTEGER_SYNTAX,
                        MSG_COMPLETE_FAILED))))
             ELSE LET update(r) ==
                          IF Truthy(trackingNumber) \/ Truthy(carrier)
                          THEN [r EXCEPT !.status = COMPLETED,
                                         !.tracking_number = OrElse(trackingNumber, Null),
                                         !.tracking_carrier = OrElse(carrier, Null)]
                          ELSE [r EXCEPT !.status = COMPLETED]
                      hit == {r \in s.orders : r.id = id.n}
                  IN  IF hit # {}
                      THEN Outcome([s EXCEPT !.orders = (@ \ hit) \cup {update(r) : r \in hit}],
                                   Resp(200, update(CHOOSE r \in hit : TRUE)))
                      ELSE Outcome(s, Resp(404, Message(MSG_NOT_FOUND)))
        ELSE LET i == FindIndex(s.memoryOrders, id)
             IN  IF i # 0
                 THEN LET order == s.memoryOrders[i]
                          updated ==
                              [order EXCEPT
                                 !.status = COMPLETED,
                                 !.tracking_number =
                                     IF Truthy(trackingNumber) THEN trackingNumber ELSE @,
                                 !.tracking_carrier =
                                     IF Truthy(carrier) THEN carrier ELSE @]
                      IN  Outcome([s EXCEPT !.memoryOrders[i] = updated],
                                  Resp(200, updated))
                 ELSE Outcome(s, Resp(404, Message(MSG_NOT_FOUND)))

\* app.patch('/api/orders/:id/cancel-request')
PatchCancelRequest(s, seg, body, err) ==
    LET id == ParseInt(seg)
        reason == IF Truthy(body.reason) THEN body.reason ELSE Str("")
    IN  IF ~s.useMemoryStore
        THEN IF err # NoError \/ id.nan
             THEN Outcome(s, Resp(500, Message(DebugMessage(s.DEBUG,
                        IF err # NoError THEN err ELSE ERR_INTEGER_SYNTAX,
                        MSG_CANCEL_REQUEST_FAILED))))
             ELSE LET update(r) == [r EXCEPT !.status = CANCEL_REQUESTED,
                                             !.cancellation_reason = reason]
                      hit == {r \in s.orders : r.id = id.n}
                  IN  IF hit # {}
                      THEN Outcome([s EXCEPT !.orders = (@ \ hit) \cup {update(r) : r \in hit}],
                                   Resp(200, update(CHOOSE r \in hit : TRUE)))
                      ELSE Outcome(s, Resp(404, Message(MSG_NOT_FOUND)))
        ELSE LET i == FindIndex(s.memoryOrders, id)
             IN  IF i # 0
                 THEN LET updated == [s.memoryOrders[i] EXCEPT
                                         !.status = CANCEL_REQUESTED,
                                         !.cancellation_reason = reason]
                      IN  Outcome([s EXCEPT !.memoryOrders[i] = updated],
                                  Resp(200, updated))
                 ELSE Outcome(s, Resp(404, Message(MSG_NOT_FOUND)))

\* app.patch('/api/orders/:id/cancel')
PatchCancel(s, seg, body, err) ==
    LET id == ParseInt(seg)
        reason == IF Truthy(body.reason) THEN body.reason ELSE Null
    IN  IF ~s.useMemoryStore
        THEN IF err # NoError \/ id.nan
             THEN Outcome(s, Resp(500, Message(DebugMessage(s.DEBUG,
                        IF err # NoError THEN err ELSE ERR_INTEGER_SYNTAX,
                        MSG_CANCEL_FAILED))))
             ELSE LET update(r) ==
                          [r EXCEPT !.status = CANCELLED,
                                    !.cancellation_reason =
                                        IF reason # Null THEN reason ELSE @]
                      hit == {r \in s.orders : r.id = id.n}
                  IN  IF hit # {}
                      THEN Outcome([s EXCEPT !.orders = (@ \ hit) \cup {update(r) : r \in hit}],
                                   Resp(200, update(CHOOSE r \in hit : TRUE)))
                      ELSE Outcome(s, Resp(404, Message(MSG_NOT_FOUND)))
        ELSE LET i == FindIndex(s.memoryOrders, id)
             IN  IF i # 0
                 THEN LET updated == [s.memoryOrders[i] EXCEPT
                                         !.status = CANCELLED,
                                         !.cancellation_reason =
                                             IF Truthy(reason) THEN reason ELSE @]
                      IN  Outcome([s EXCEPT !.memoryOrders[i] = updated],
                                  Resp(200, updated))
                 ELSE Outcome(s, Resp(404, Message(MSG_NOT_FOUND)))

\* Mutant: the in-memory branch splices without testing the index, and
\* splice(-1, 1) removes the last element.
DeleteOrder_NoIndexTest(s, seg, err) ==
    LET id == ParseInt(seg)
    IN  IF ~s.useMemoryStore
        THEN IF err # NoError \/ id.nan
             THEN Outcome(s, Resp(500, Message(MSG_DELETE_FAILED)))
             ELSE LET hit == {r \in s.orders : r.id = id.n}
                  IN  IF Cardinality(hit) > 0
                      THEN Outcome([s EXCEPT !.orders = @ \ hit],
                                   Resp(200, Message(MSG_DELETED)))
                      ELSE Outcome(s, Resp(404, Message(MSG_NOT_FOUND)))
        ELSE LET index == FindIndex(s.memoryOrders, id)
             IN  Outcome([s EXCEPT !.memoryOrders =
                              IF index # 0 THEN Splice(@, index)
                              ELSE SubSeq(@, 1, Len(@) - 1)],
                         Resp(200, Message(MSG_DELETED)))

\* app.delete('/api/orders/:id')
DeleteOrder(s, seg, err) ==
    LET id == ParseInt(seg)
    IN  IF ~s.useMemoryStore
        THEN IF err # NoError \/ id.nan
             THEN Outcome(s, Resp(500, Message(MSG_DELETE_FAILED)))
             ELSE LET hit == {r \in s.orders : r.id = id.n}
                  IN  IF Cardinality(hit) > 0
                      THEN Outcome([s EXCEPT !.orders = @ \ hit],
                                   Resp(200, Message(MSG_DELETED)))
                      ELSE Outcome(s, Resp(404, Message(MSG_NOT_FOUND)))
        ELSE LET index == FindIndex(s.memoryOrders, id)
             IN  IF index # 0
                 THEN Outcome([s EXCEPT !.memoryOrders = Splice(@, index)],
                              Resp(200, Message(MSG_DELETED)))
                 ELSE Outcome(s, Resp(404, Message(MSG_NOT_FOUND)))

\* app.delete('/api/orders/all')
DeleteAllOrders(s, err) ==
    IF ~s.useMemoryStore
    THEN IF err # NoError
         THEN Outcome(s, Resp(500, Message(MSG_TRUNCATE_FAILED)))
         ELSE Outcome([s EXCEPT !.orders = {}, !.orders_id_seq = 0],
                      Resp(200, Message(MSG_ALL_DELETED)))
    ELSE Outcome([s EXCEPT !.memoryOrders = <<>>, !.memoryNextId = 1],
                 Resp(200, Message(MSG_ALL_DELETED_MEMORY)))

----------------------------------------------------------------------------
\* The DELETE routes in the order they are registered; Express serves a
\* request by the first route whose path matches.
ROUTE_ID == "/api/orders/:id"
ROUTE_ALL == "/api/orders/all"
SegAll == <<"a", "l", "l">>

\* Mutant: the two DELETE routes registered the other way round.
DeleteRoutes_AllFirst == <<ROUTE_ALL, ROUTE_ID>>

DeleteRoutes == <<ROUTE_ID, ROUTE_ALL>>

\* A path /api/orders/<seg> matches ':id' with any non-empty segment and
\* 'all' with the segment all.
RouteMatches(route, seg) ==
    \/ route = ROUTE_ID /\ seg # <<>>
    \/ route = ROUTE_ALL /\ seg = SegAll

Dispatch(routes, seg) ==
    LET hits == {i \in 1..Len(routes) : RouteMatches(routes[i], seg)}
    IN  IF hits = {} THEN "none"
        ELSE routes[CHOOSE i \in hits : \A j \in hits : i <= j]

----------------------------------------------------------------------------
\* The requests of the model.
IdSeg(n) == <<Digits[n + 1]>>
Segs == {IdSeg(n) : n \in 1..(MaxOrders + 1)} \cup {SegAll}

Fields == {"quantity", "name", "phone", "address", "totalAmount"}
ValidBody(q) ==
    [quantity |-> q, name |-> Str("Kim"), phone |-> Str("010-1111-2222"),
     address |-> Str("Seoul"), totalAmount |-> Str("20000")]
PostBodies ==
    {ValidBody(q) : q \in {Num(2), Str("2")}}
    \cup {[ValidBody(Num(2)) EXCEPT ![f] = Undef] : f \in Fields}
    \cup {[ValidBody(Num(2)) EXCEPT ![f] = IF f = "quantity" THEN Num(0) ELSE Str("")] :
            f \in Fields}
CompleteBodies ==
    [trackingNumber : {Undef, Str("TN1")}, carrier : {Undef, Str("CJ")}]
CancelBodies == [reason : {Undef, Str("changed mind")}]

\* Errors the body parser (express.json) passes on: malformed JSON, a body
\* over the size limit, an encoding it does not support.
PARSE_FAILED == "entity.parse.failed"
MiddlewareErrors ==
    {[type |-> PARSE_FAILED, message |-> "Unexpected token"],
     [type |-> "entity.too.large", message |-> "request entity too large"],
     [type |-> "encoding.unsupported", message |-> "unsupported content encoding"]}

\* pool.query is called, and can fail, in the relational variant only.
Errors == IF useMemoryStore THEN {NoError} ELSE {NoError} \cup DriverErrors

Request(method, seg, sub, body, err) ==
    [method |-> method, seg |-> seg, sub |-> sub, body |-> body, err |-> err]

\* The step of a handler with outcome o.
Serve(o) ==
    /\ memoryOrders' = o.s.memoryOrders
    /\ memoryNextId' = o.s.memoryNextId
    /\ orders' = o.s.orders
    /\ orders_id_seq' = o.s.orders_id_seq
    /\ res' = o.res
    /\ served < MaxRequests
    /\ served' = served + 1
    /\ useMemoryStore' = o.s.useMemoryStore
    /\ UNCHANGED <<databaseUrl, DEBUG, listening, now, resPg, startup>>

\* The global error handler, app.use((err, req, res, next) => ...).
ErrorHandler(debug, err) ==
    IF err.type = PARSE_FAILED
    THEN Resp(400, Message(IF debug THEN err.message ELSE MSG_BAD_REQUEST))
    ELSE Resp(500, Message(IF debug THEN err.message ELSE MSG_SERVER_ERROR))

----------------------------------------------------------------------------
\* startServer.  The server is relational when DATABASE_URL is set and both
\* pool.connect and CREATE TABLE succeed, in-memory otherwise; then
\* app.listen.  The awaits are the steps.
StartupVars == <<databaseUrl, DEBUG, memoryOrders, memoryNextId, orders,
                 orders_id_seq, now, req, res, resPg, issued, served>>

\* The inner catch: any failure of connect or of CREATE TABLE falls back to
\* the in-memory store and goes on to app.listen.
\* Mutant: the failure ends the process, as in a start without fallback.
OnDbError_Exit(dbErr) ==
    [startup |-> Startup("exited", dbErr), useMemoryStore |-> useMemoryStore]
OnDbError(dbErr) ==
    [startup |-> Startup("listen", dbErr), useMemoryStore |-> TRUE]

\* Mutant: app.listen is called first and the database is tried after it.
StartServer_ListenFirst ==
    /\ startup.pc = "start"
    /\ listening' = TRUE
    /\ IF databaseUrl
       THEN /\ startup' = Startup("connect", NoError)
            /\ UNCHANGED useMemoryStore
       ELSE /\ startup' = Startup("listen", NoError)
            /\ useMemoryStore' = TRUE
    /\ UNCHANGED StartupVars

StartServer ==
    /\ startup.pc = "start"
    /\ IF databaseUrl
       THEN /\ startup' = Startup("connect", NoError)
            /\ UNCHANGED useMemoryStore
       ELSE /\ startup' = Startup("listen", NoError)
            /\ useMemoryStore' = TRUE
    /\ UNCHANGED <<StartupVars, listening>>

\* await pool.connect()
Connect ==
    /\ startup.pc = "connect"
    /\ \E err \in {NoError} \cup DriverErrors :
          IF err = NoError
          THEN /\ startup' = Startup("createTable", NoError)
               /\ UNCHANGED useMemoryStore
          ELSE /\ startup' = OnDbError(err).startup
               /\ useMemoryStore' = OnDbError(err).useMemoryStore
    /\ UNCHANGED <<StartupVars, listening>>

\* await client.query(CREATE TABLE IF NOT EXISTS orders ...); client.release()
CreateTable ==
    /\ startup.pc = "createTable"
    /\ \E err \in {NoError} \cup DriverErrors :
          IF err = NoError
          THEN /\ startup' = Startup("listen", NoError)
               /\ UNCHANGED useMemoryStore
          ELSE /\ startup' = OnDbError(err).startup
               /\ useMemoryStore' = OnDbError(err).useMemoryStore
    /\ UNCHANGED <<StartupVars, listening>>

\* app.listen(port, ...); startServer returns.
Listen ==
    /\ startup.pc = "listen"
    /\ listening' = TRUE
    /\ startup' = Startup("done", NoError)
    /\ UNCHANGED <<StartupVars, useMemoryStore>>

\* The clock advances.
Tick ==
    /\ listening
    /\ now < MaxTime
    /\ now' = now + 1
    /\ UNCHANGED <<databaseUrl, DEBUG, listening, useMemoryStore, memoryOrders,
                   memoryNextId, orders, orders_id_seq, req, res, resPg, issued,
                   served, startup>>

\* POST /api/orders
Submit ==
    /\ listening
    /\ memoryNextId <= MaxOrders
    /\ orders_id_seq < MaxOrders
    /\ \E body \in PostBodies, err \in Errors :
          LET o == PostOrders(Store, body, err)
          IN  /\ Serve(o)
              /\ req' = Request("POST", <<>>, "", body, err)
              /\ issued' = IF o.res.code = 201
                           THEN Append(issued, o.res.body.id)
                           ELSE issued

\* GET /api/orders
List ==
    /\ listening
    /\ \E err \in Errors :
       \E rows \in (IF useMemoryStore THEN {<<>>} ELSE OrderByDateDesc(orders)) :
          /\ Serve(GetOrders(Store, err, rows))
          /\ req' = Request("GET", <<>>, "", Undef, err)
          /\ UNCHANGED issued

\* PATCH /api/orders/<seg>/complete
Complete ==
    /\ listening
    /\ \E seg \in Segs, body \in CompleteBodies, err \in Errors :
          /\ Serve(PatchComplete(Store, seg, body, err))
          /\ req' = Request("PATCH", seg, "complete", body, err)
          /\ UNCHANGED issued

\* PATCH /api/orders/<seg>/cancel-request
CancelRequest ==
    /\ listening
    /\ \E seg \in Segs, body \in CancelBodies, err \in Errors :
          /\ Serve(PatchCancelRequest(Store, seg, body, err))
          /\ req' = Request("PATCH", seg, "cancel-request", body, err)
          /\ UNCHANGED issued

\* PATCH /api/orders/<seg>/cancel
Cancel ==
    /\ listening
    /\ \E seg \in Segs, body \in CancelBodies, err \in Errors :
          /\ Serve(PatchCancel(Store, seg, body, err))
          /\ req' = Request("PATCH", seg, "cancel", body, err)
          /\ UNCHANGED issued

\* DELETE /api/orders/<seg>, served by the first DELETE route that matches.
DeleteHandler(s, seg, err) ==
    IF Dispatch(DeleteRoutes, seg) = ROUTE_ALL
    THEN DeleteAllOrders(s, err)
    ELSE DeleteOrder(s, seg, err)

Delete ==
    /\ listening
    /\ \E seg \in Segs, err \in Errors :
          /\ Serve(DeleteHandler(Store, seg, err))
          /\ req' = Request("DELETE", seg, "", Undef, err)
          /\ UNCHANGED issued

\* POST /api/orders with every required field truthy and the quantity a
\* positive integer, a negative one, a fraction, or a string that spells a
\* positive integer, zero or no number.
Quantities == {Num(2), Str("2"), Num(-1), Frac(3, 2), Str("0"), Str("abc")}
QuantityBodies == {ValidBody(q) : q \in Quantities}

SubmitQuantity ==
    /\ listening
    /\ memoryNextId <= MaxOrders
    /\ orders_id_seq < MaxOrders
    /\ \E body \in QuantityBodies, err \in Errors :
          LET o == PostOrders(Store, body, err)
          IN  /\ Serve(o)
              /\ req' = Request("POST", <<>>, "", body, err)
              /\ issued' = IF o.res.code = 201
                           THEN Append(issued, o.res.body.id)
                           ELSE issued

Next ==
    \/ StartServer
    \/ Connect
    \/ CreateTable
    \/ Listen
    \/ Tick
    \/ Submit
    \/ List
    \/ Complete
    \/ CancelRequest
    \/ Cancel
    \/ Delete

Spec == Init /\ [][Next]_vars

\* The server with its start running on: a pending connect or CREATE TABLE
\* settles (it resolves or rejects), and startServer, which awaits nothing
\* else, goes on to app.listen.
SpecFair ==
    /\ Init
    /\ [][Next]_vars
    /\ WF_vars(StartServer)
    /\ WF_vars(Connect)
    /\ WF_vars(CreateTable)
    /\ WF_vars(Listen)

\* A request whose body the parser refuses: the error goes to the global
\* error handler and no route handler runs.
MalformedBody ==
    /\ listening
    /\ \E method \in {"POST", "PATCH"}, err \in MiddlewareErrors :
          /\ Serve(Outcome(Store, ErrorHandler(DEBUG, err)))
          /\ req' = Request(method, <<>>, "", Undef, err.message)
          /\ UNCHANGED issued

\* The server with such requests among the others.
NextErrors ==
    \/ Next
    \/ MalformedBody

SpecErrors == Init /\ [][NextErrors]_vars

\* The server under submissions of every kind of quantity, with list and
\* delete requests in between.
NextQuantity ==
    \/ StartServer
    \/ Connect
    \/ CreateTable
    \/ Listen
    \/ Tick
    \/ SubmitQuantity
    \/ List
    \/ Delete

SpecQuantity == Init /\ [][NextQuantity]_vars

----------------------------------------------------------------------------
\* The two variants side by side: one process started with the in-memory
\* store and one with the relational store (no driver errors), both given
\* the same request at every step.  memoryOrders and memoryNextId are the
\* first process's state and res its response; orders and orders_id_seq
\* are the second's and resPg its response.
MemStore == [Store EXCEPT !.useMemoryStore = TRUE]
PgStore == [Store EXCEPT !.useMemoryStore = FALSE]
IdSegs == {IdSeg(n) : n \in 1..(MaxOrders + 1)}

InitBoth ==
    /\ databaseUrl = TRUE
    /\ DEBUG = FALSE
    /\ listening = TRUE
    /\ useMemoryStore = FALSE
    /\ memoryOrders = <<>>
    /\ memoryNextId = 1
    /\ orders = {}
    /\ orders_id_seq = 0
    /\ now = 0
    /\ req = NoRequest
    /\ res = NoResponse
    /\ resPg = NoResponse
    /\ issued = <<>>
    /\ served = 0
    /\ startup = Startup("done", NoError)

ServeBoth(om, op) ==
    /\ memoryOrders' = om.s.memoryOrders
    /\ memoryNextId' = om.s.memoryNextId
    /\ orders' = op.s.orders
    /\ orders_id_seq' = op.s.orders_id_seq
    /\ res' = om.res
    /\ resPg' = op.res
    /\ served < MaxRequests
    /\ served' = served + 1
    /\ UNCHANGED <<databaseUrl, DEBUG, listening, useMemoryStore, now, startup>>

BothSubmit ==
    /\ memoryNextId <= MaxOrders
    /\ orders_id_seq < MaxOrders
    /\ \E body \in PostBodies :
          LET om == PostOrders(MemStore, body, NoError)
          IN  /\ ServeBoth(om, PostOrders(PgStore, body, NoError))
              /\ req' = Request("POST", <<>>, "", body, NoError)
              /\ issued' = IF om.res.code = 201
                           THEN Append(issued, om.res.body.id)
                           ELSE issued

BothList ==
    \E rows \in OrderByDateDesc(orders) :
       /\ ServeBoth(GetOrders(MemStore, NoError, <<>>),
                    GetOrders(PgStore, NoError, rows))
       /\ req' = Request("GET", <<>>, "", Undef, NoError)
       /\ UNCHANGED issued

BothComplete ==
    \E seg \in IdSegs, body \in CompleteBodies :
       /\ ServeBoth(PatchComplete(MemStore, seg, body, NoError),
                    PatchComplete(PgStore, seg, body, NoError))
       /\ req' = Request("PATCH", seg, "complete", body, NoError)
       /\ UNCHANGED issued

BothCancelRequest ==
    \E seg \in IdSegs, body \in CancelBodies :
       /\ ServeBoth(PatchCancelRequest(MemStore, seg, body, NoError),
                    PatchCancelRequest(PgStore, seg, body, NoError))
       /\ req' = Request("PATCH", seg, "cancel-request", body, NoError)
       /\ UNCHANGED issued

BothCancel ==
    \E seg \in IdSegs, body \in CancelBodies :
       /\ ServeBoth(PatchCancel(MemStore, seg, body, NoError),
                    PatchCancel(PgStore, seg, body, NoError))
       /\ req' = Request("PATCH", seg, "cancel", body, NoError)
       /\ UNCHANGED issued

BothDelete ==
    \E seg \in IdSegs :
       /\ ServeBoth(DeleteHandler(MemStore, seg, NoError),
                    DeleteHandler(PgStore, seg, NoError))
       /\ req' = Request("DELETE", seg, "", Undef, NoError)
       /\ UNCHANGED issued

BothTick ==
    /\ now < MaxTime
    /\ now' = now + 1
    /\ UNCHANGED <<databaseUrl, DEBUG, listening, useMemoryStore, memoryOrders,
                   memoryNextId, orders, orders_id_seq, req, res, resPg, issued,
                   served, startup>>

NextBoth ==
    \/ BothTick
    \/ BothSubmit
    \/ BothList
    \/ BothComplete
    \/ BothCancelRequest
    \/ BothCancel
    \/ BothDelete

SpecBoth == InitBoth /\ [][NextBoth]_vars

----------------------------------------------------------------------------
\* The orders stored by the running process (under Spec the store of the
\* other variant stays empty).
Range(q) == {q[i] : i \in DOMAIN q}
LiveOrders == Range(memoryOrders) \cup orders
StoreVars == <<memoryOrders, memoryNextId, orders, orders_id_seq>>

\* C1: within one store instance every created order gets an id strictly
\* greater than the id of every order created before it, whatever submit,
\* status, delete-one and delete-all requests were served in between.
C1_IdsStrictlyIncrease ==
    \A i, j \in DOMAIN issued : i < j => issued[i] < issued[j]

\* An order was created, deleted again, and a second order has just been
\* created.
C1_Witness ==
    /\ req.method = "POST"
    /\ res.code = 201
    /\ Len(issued) >= 2
    /\ Cardinality(LiveOrders) = 1

\* C2: a DELETE of /api/orders/all is served by delete-all: it is answered
\* 200 and every order is removed, or 500 on a storage error; it is never
\* answered 404.
C2_DeleteAllIsServed ==
    (req.method = "DELETE" /\ req.seg = SegAll) =>
        /\ res.code \in {200, 500}
        /\ res.code = 200 => LiveOrders = {}
        /\ res.code = 500 => req.err \in DriverErrors

\* C3: in the in-memory variant, once a delete-all request has been served
\* list-orders returns the empty sequence and the next valid submission is
\* given id 1.
C3_DeleteAllResets ==
    (useMemoryStore /\ req.method = "DELETE" /\ req.seg = SegAll) =>
        /\ GetOrders(Store, NoError, <<>>).res.body = <<>>
        /\ PostOrders(Store, ValidBody(Num(2)), NoError).res.body.id = 1

\* C4: after N creates and no delete, list-orders returns exactly N records,
\* the most recently created first, also when orders were created within
\* the same clock tick.
C4_ListNewestFirst ==
    (req.method = "GET" /\ res.code = 200
        /\ Cardinality(LiveOrders) = Len(issued)) =>
        /\ Len(res.body) = Len(issued)
        /\ \A i, j \in DOMAIN res.body :
              i < j => res.body[i].id > res.body[j].id


\* A step that serves a request.
Served == served' # served

\* The id a request addresses, and whether some stored order has it.
Addressed(r) == ParseInt(r.seg)
Known(id) == \E o \in LiveOrders : IdEq(o.id, id)

\* The transitions of the status state machine.
Forward ==
    {<<PENDING, COMPLETED>>, <<PENDING, CANCEL_REQUESTED>>,
     <<CANCEL_REQUESTED, CANCELLED>>, <<PENDING, CANCELLED>>}

\* The status each status request writes.
TargetStatus(sub) ==
    CASE sub = "complete" -> COMPLETED
      [] sub = "cancel-request" -> CANCEL_REQUESTED
      [] sub = "cancel" -> CANCELLED

\* C5: an order's status only moves forward along PENDING -> COMPLETED,
\* PENDING -> CANCEL_REQUESTED, CANCEL_REQUESTED -> CANCELLED and
\* PENDING -> CANCELLED.
C5_StatusOnlyForward ==
    [][\A o \in LiveOrders, p \in LiveOrders' :
          (o.id = p.id /\ o.status # p.status) =>
              <<o.status, p.status>> \in Forward]_vars

\* C5 as amended: an order's status is changed only by a complete,
\* cancel-request or cancel request addressed to it; such a request, when
\* answered 200, sets the status to COMPLETED, CANCEL_REQUESTED or CANCELLED
\* whatever it was before; no request moves an order back to PENDING.
C5_StatusSetByRequest ==
    [][/\ \A o \in LiveOrders, p \in LiveOrders' :
             (o.id = p.id /\ o.status # p.status) =>
                 /\ Served
                 /\ req'.method = "PATCH"
                 /\ IdEq(o.id, Addressed(req'))
                 /\ p.status = TargetStatus(req'.sub)
                 /\ p.status # "PENDING"
       /\ (Served /\ req'.method = "PATCH" /\ res'.code = 200) =>
             \E p \in LiveOrders' :
                 /\ IdEq(p.id, Addressed(req'))
                 /\ p.status = TargetStatus(req'.sub)
                 /\ p.status # "PENDING"]_vars

\* A complete request has just been answered 200 for an order that was
\* cancel-requested or cancelled before (its cancellation reason is set).
C5_Witness ==
    /\ req.method = "PATCH"
    /\ req.sub = "complete"
    /\ res.code = 200
    /\ res.body.status = COMPLETED
    /\ res.body.cancellation_reason # Null

\* C6: a complete, cancel-request, cancel or delete-one request for an id
\* that no stored order has is answered 404 and leaves the records and the
\* next-id counter as they were.
C6_UnknownIdIs404 ==
    [][(/\ Served
        /\ req'.method \in {"PATCH", "DELETE"}
        /\ req'.err = NoError
        /\ ~Addressed(req').nan
        /\ ~Known(Addressed(req'))) =>
            (res'.code = 404 /\ UNCHANGED StoreVars)]_vars

\* A request for an id that no order has was answered 404 while another
\* order is stored.
C6_Witness ==
    /\ req.method \in {"PATCH", "DELETE"}
    /\ ~Addressed(req).nan
    /\ ~Known(Addressed(req))
    /\ LiveOrders # {}
    /\ res.code = 404

\* The falsy values of JavaScript (absent, null, NaN, '' and 0).
FalsyValues == {Undef, Null, NaN, Str(""), Num(0)}

\* C7: a submit request with one of quantity, name, phone, address and
\* totalAmount absent or falsy is answered 400, creates no record and
\* consumes no id.
C7_InvalidSubmitIs400 ==
    [][(/\ Served
        /\ req'.method = "POST"
        /\ \E f \in Fields : req'.body[f] \in FalsyValues) =>
            (res'.code = 400 /\ UNCHANGED StoreVars /\ UNCHANGED issued)]_vars

\* A submit with quantity 0 was answered 400 while an order is stored.
C7_Witness ==
    /\ req.method = "POST"
    /\ req.body.quantity = Num(0)
    /\ res.code = 400
    /\ LiveOrders # {}

\* A field after a merge: the supplied value, or the old one if none is.
Merged(supplied, old) == IF supplied = Undef THEN old ELSE supplied

\* C8: in both variants a status request answered 200 merges its extras:
\* an omitted trackingNumber, carrier or reason leaves the order's field as
\* it was, a supplied one is stored.
C8_ExtrasMerged ==
    [][(Served /\ req'.method = "PATCH" /\ res'.code = 200) =>
          \A o \in LiveOrders, p \in LiveOrders' :
             (o.id = p.id /\ IdEq(o.id, Addressed(req'))) =>
                 IF req'.sub = "complete"
                 THEN /\ p.tracking_number =
                            Merged(req'.body.trackingNumber, o.tracking_number)
                      /\ p.tracking_carrier =
                            Merged(req'.body.carrier, o.tracking_carrier)
                 ELSE p.cancellation_reason =
                            Merged(req'.body.reason, o.cancellation_reason)]_vars

\* The fields of an order the two variants are compared on.
Compared(o) ==
    [id |-> o.id, status |-> o.status, tracking_number |-> o.tracking_number,
     tracking_carrier |-> o.tracking_carrier,
     cancellation_reason |-> o.cancellation_reason]

\* C9: the two variants, given the same requests, answer with the same
\* codes and hold orders with the same id, status, tracking number,
\* tracking carrier and cancellation reason after every request.
C9_VariantsAgree ==
    /\ res.code = resPg.code
    /\ {Compared(o) : o \in Range(memoryOrders)} = {Compared(o) : o \in orders}

\* The fields of an order set at creation.
CreationFields(o) ==
    [id |-> o.id, order_date |-> o.order_date, product_name |-> o.product_name,
     quantity |-> o.quantity, buyer_name |-> o.buyer_name, phone |-> o.phone,
     address |-> o.address, total_amount |-> o.total_amount]

\* C10: an order changes only by a status request addressed to it, and
\* then only in status, tracking number, tracking carrier and cancellation
\* reason: the other fields keep their creation-time values and every other
\* order is unchanged.
C10_OnlyStatusFieldsChange ==
    [][\A o \in LiveOrders, p \in LiveOrders' :
          o.id = p.id =>
              /\ CreationFields(p) = CreationFields(o)
              /\ o # p => (/\ Served
                           /\ req'.method = "PATCH"
                           /\ IdEq(o.id, Addressed(req')))]_vars

\* A status request for one of two stored orders was answered 200; the
\* other order is still as it was created.
C10_Witness ==
    /\ req.method = "PATCH"
    /\ res.code = 200
    /\ Cardinality(LiveOrders) = 2
    /\ \E o \in LiveOrders :
          /\ ~IdEq(o.id, Addressed(req))
          /\ o.status = PENDING
    /\ \E o \in LiveOrders :
          /\ IdEq(o.id, Addressed(req))
          /\ o.status # PENDING
          /\ o.buyer_name = Str("Kim")

----------------------------------------------------------------------------
\* C11.  The storage variant is chosen once, by startServer, before the
\* server listens, and never switches afterwards: once the server listens
\* it goes on listening and no step, whether a handler that succeeds or
\* one whose query fails, changes useMemoryStore; the flag is only ever
\* written by a step of startServer.
C11_VariantChosenOnce ==
    [][/\ listening => listening' /\ useMemoryStore' = useMemoryStore
       /\ useMemoryStore' # useMemoryStore =>
              startup.pc \in {"start", "connect", "createTable"}]_vars

\* A relational server has answered 500 to a failed query and is still
\* relational.
C11_Witness ==
    /\ listening
    /\ databaseUrl
    /\ ~useMemoryStore
    /\ req.method # "none"
    /\ req.err \in DriverErrors
    /\ res.code = 500

----------------------------------------------------------------------------
\* What a list request would return in the state reached: every result the
\* store can give it.
ListResults(s, rowsets) == {GetOrders(s, NoError, rows).res.body : rows \in rowsets}

\* C12: a delete-one request for an id that a stored order has (and whose
\* query does not fail) is answered 200 and removes exactly that order: the
\* orders left are the ones stored before with every field unchanged, in
\* the in-memory variant in the order they had, a list request that follows
\* returns exactly them, and the next-id counter is unchanged.
C12_DeleteOneRemovesOne ==
    [][(/\ Served
        /\ req'.method = "DELETE"
        /\ req'.err = NoError
        /\ Known(Addressed(req'))) =>
            (/\ res'.code = 200
             /\ LiveOrders' = {o \in LiveOrders : ~IdEq(o.id, Addressed(req'))}
             /\ Cardinality(LiveOrders') = Cardinality(LiveOrders) - 1
             /\ memoryOrders' =
                   SelectSeq(memoryOrders,
                             LAMBDA o : ~IdEq(o.id, Addressed(req')))
             /\ memoryNextId' = memoryNextId
             /\ orders_id_seq' = orders_id_seq
             /\ \A l \in ListResults(Store, IF useMemoryStore THEN {<<>>}
                                           ELSE OrderByDateDesc(orders))' :
                    /\ Range(l) = LiveOrders'
                    /\ Len(l) = Cardinality(LiveOrders'))]_vars

\* The first of two stored orders has just been deleted and the second is
\* still stored.
C12_Witness ==
    /\ req.method = "DELETE"
    /\ res.code = 200
    /\ Addressed(req).n = 1
    /\ ~Known(Addressed(req))
    /\ \E o \in LiveOrders : o.id = 2

----------------------------------------------------------------------------
\* The quantities the INTEGER column refuses (the INSERT fails, which is a
\* storage error).
RefusedByColumn == {Frac(3, 2), Str("abc")}

----------------------------------------------------------------------------
\* The response to request r from the current state had its query failed
\* with error e.
Rerun(r, e) ==
    CASE r.method = "POST" -> PostOrders(Store, r.body, e).res
      [] r.method = "GET" -> GetOrders(Store, e, <<>>).res
      [] r.method = "PATCH" /\ r.sub = "complete" ->
            PatchComplete(Store, r.seg, r.body, e).res
      [] r.method = "PATCH" /\ r.sub = "cancel-request" ->
            PatchCancelRequest(Store, r.seg, r.body, e).res
      [] r.method = "PATCH" /\ r.sub = "cancel" ->
            PatchCancel(Store, r.seg, r.body, e).res
      [] r.method = "DELETE" -> DeleteHandler(Store, r.seg, e).res

\* The fixed message of the 500 response of each handler.
FixedMessage(r) ==
    CASE r.body = Undef /\ r.method \in {"POST", "PATCH"} -> "server error"
      [] r.method = "POST" -> "saving the order failed"
      [] r.method = "GET" -> "listing the orders failed"
      [] r.method = "PATCH" /\ r.sub = "complete" ->
            "updating the order status failed"
      [] r.method = "PATCH" /\ r.sub = "cancel-request" ->
            "handling the cancel request failed"
      [] r.method = "PATCH" /\ r.sub = "cancel" -> "cancelling the order failed"
      [] r.method = "DELETE" -> "deleting the order failed"

\* What an error carries: the messages of the driver's, the server's and
\* the body parser's errors.
ErrorDetails ==
    DriverErrors \cup {ERR_INTEGER_SYNTAX}
    \cup {e.message : e \in MiddlewareErrors}

\* C14: when DEBUG is not set the body of every 500 response is the fixed
\* message of its handler and does not depend on the error: had the query
\* (or the body parser) failed with any other error, the response would
\* have been the same.  No response carries the detail of an error unless
\* DEBUG is set.
C14_ErrorDetailHidden ==
    [][Served =>
        /\ (~DEBUG /\ res'.code = 500) =>
              /\ res'.body = Message(FixedMessage(req'))
              /\ req'.body = Undef /\ req'.method \in {"POST", "PATCH"} =>
                    \A e \in MiddlewareErrors :
                       e.type # PARSE_FAILED => ErrorHandler(DEBUG, e) = res'
              /\ ~(req'.body = Undef /\ req'.method \in {"POST", "PATCH"}) =>
                    \A e \in DriverErrors : Rerun(req', e) = res'
        /\ (res'.code >= 400 /\ res'.body.message \in ErrorDetails) => DEBUG]_vars

\* In production mode a status request whose query failed with a driver
\* error has been answered 500.
C14_Witness ==
    /\ ~DEBUG
    /\ res.code = 500
    /\ req.method = "PATCH"
    /\ req.body # Undef
    /\ req.err \in DriverErrors

----------------------------------------------------------------------------
\* C15: in the in-memory variant a handler runs from its read of
\* memoryOrders and memoryNextId to its write without a suspension point,
\* so requests that arrive together are served one whole handler after the
\* other, in any order.  Whatever the order: no two stored orders have the
\* same id; an accepted create appends its record and touches no other; an
\* accepted status update is stored in the order it addresses; and an
\* order that is stored stays as it is unless a request that addresses it
\* is answered 200.
C15_NoLostUpdate ==
    [][(useMemoryStore /\ Served) =>
        /\ \A i, j \in DOMAIN memoryOrders' :
              i # j => memoryOrders'[i].id # memoryOrders'[j].id
        /\ res'.code = 201 => memoryOrders' = Append(memoryOrders, res'.body)
        /\ (req'.method = "PATCH" /\ res'.code = 200) =>
              /\ Len(memoryOrders') = Len(memoryOrders)
              /\ IdEq(res'.body.id, Addressed(req'))
              /\ res'.body.status = TargetStatus(req'.sub)
              /\ \E i \in DOMAIN memoryOrders' : memoryOrders'[i] = res'.body
        /\ \A o \in Range(memoryOrders) :
              \/ o \in Range(memoryOrders')
              \/ /\ req'.method \in {"PATCH", "DELETE"}
                 /\ res'.code = 200
                 /\ IdEq(o.id, Addressed(req'))]_vars

\* In the in-memory variant two orders were created and the second has
\* just been given a new status.
C15_Witness ==
    /\ useMemoryStore
    /\ Len(memoryOrders) = 2
    /\ req.method = "PATCH"
    /\ res.code = 200
    /\ Addressed(req).n = 2
    /\ memoryOrders[1].status = PENDING
    /\ memoryOrders[2].status = TargetStatus(req.sub)

----------------------------------------------------------------------------
\* C16: the start never aborts because the database is unavailable.  The
\* server eventually listens; startServer never exits; it reaches
\* app.listen with the in-memory store exactly when DATABASE_URL is unset
\* or connect or CREATE TABLE failed, so with the relational store only
\* after both succeeded; and the server that listens has finished its
\* start.
C16_StartupFallsBack ==
    /\ <>listening
    /\ [](startup.pc # "exited")
    /\ [](listening => startup.pc = "done")
    /\ [][(startup'.pc = "listen" /\ startup.pc # "listen") =>
            /\ useMemoryStore' <=> (~databaseUrl \/ startup'.dbErr # NoError)
            /\ ~useMemoryStore' =>
                  /\ databaseUrl
                  /\ startup.pc = "createTable"
                  /\ startup'.dbErr = NoError]_vars

\* DATABASE_URL is set, connect or CREATE TABLE failed, and the server
\* listens with the in-memory store.
C16_Witness ==
    /\ databaseUrl
    /\ useMemoryStore
    /\ listening
    /\ startup.pc = "done"

----------------------------------------------------------------------------
\* C17: every stored order has a quantity that is a positive integer,
\* whatever truthy quantity the accepted submission carried.
C17_QuantityPositiveInteger ==
    \A o \in LiveOrders :
       /\ o.quantity.t = "number"
       /\ IsWhole(o.quantity)
       /\ o.quantity.n > 0

----------------------------------------------------------------------------
\* C18: in the in-memory variant, after any sequence of requests, the ids
\* of the orders in memoryOrders are pairwise distinct, each is at least 1
\* and less than memoryNextId, and memoryNextId is at least 1.
C18_IdsBelowNextId ==
    useMemoryStore =>
        /\ memoryNextId >= 1
        /\ \A i \in DOMAIN memoryOrders :
              /\ memoryOrders[i].id >= 1
              /\ memoryOrders[i].id < memoryNextId
              /\ \A j \in DOMAIN memoryOrders :
                    i # j => memoryOrders[i].id # memoryOrders[j].id

\* The first of two orders was deleted: the store holds the order with id
\* 2 alone and the next id is 3.
C18_Witness ==
    /\ useMemoryStore
    /\ Len(memoryOrders) = 1
    /\ memoryOrders[1].id = 2
    /\ memoryNextId = 3
    /\ req.method = "DELETE"

----------------------------------------------------------------------------
\* C19: a list request is read-only.  In the in-memory variant the handler
\* sorts a copy: memoryOrders (its records, their fields and their
\* insertion order) and memoryNextId are as before, the response holds
\* exactly the stored orders, and a list request that follows another with
\* no request in between returns the same sequence.
C19_ListIsReadOnly ==
    [][(useMemoryStore /\ Served /\ req'.method = "GET") =>
        /\ memoryOrders' = memoryOrders
        /\ memoryNextId' = memoryNextId
        /\ res'.code = 200
        /\ Len(res'.body) = Len(memoryOrders)
        /\ Range(res'.body) = Range(memoryOrders)
        /\ (req.method = "GET" /\ res.code = 200) => res'.body = res.body]_vars

\* In the in-memory variant a list request has returned two orders in
\* another order than the one they are stored in.
C19_Witness ==
    /\ useMemoryStore
    /\ req.method = "GET"
    /\ res.code = 200
    /\ Len(res.body) = 2
    /\ res.body # memoryOrders
    /\ memoryOrders[1].id = 1

====
